---- MODULE Spec2Model ----
(***************************************************************************)
(* A model of cli::Parser (src/cli/cli.h): the option registry, the        *)
(* caller-owned variables the options are bound to, the remaining-args     *)
(* list, the error log written through CLI_LOG_ERROR, the scan of an       *)
(* argument vector by parse / handleOption / applyOption / isNumeric, and  *)
(* validatePathOptions against the files that can be opened.               *)
(*                                                                         *)
(* A C string is a sequence of one-character strings; argv is a sequence   *)
(* of such strings with argv[1] the executable name (C's argv[0]).         *)
(***************************************************************************)
EXTENDS Integers, Sequences, FiniteSets, TLC

VARIABLES options, vals, vals0, remaining, executableName, log,
          argv, i, ci, pc, result,
          files, valid, visited, calls

vars == <<options, vals, vals0, remaining, executableName, log,
          argv, i, ci, pc, result, files, valid, visited, calls>>

(***************************************************************************)
(* Bounds of the model.                                                    *)
(***************************************************************************)
MaxArgs == 3
MaxLitLen == 4
MaxCalls == 2

(***************************************************************************)
(* Characters and strings.                                                 *)
(***************************************************************************)
DigitChars == <<"0", "1", "2", "3", "4", "5", "6", "7", "8", "9">>

Digits == {DigitChars[d] : d \in 1..10}

DigitVal(c) == (CHOOSE d \in 1..10 : DigitChars[d] = c) - 1

strlen(s) == Len(s)

\* arg + n : the C string that starts n characters into s
Tail_n(s, n) == SubSeq(s, n + 1, Len(s))

\* s[k] with C's 0-based index
At(s, k) == s[k + 1]

(***************************************************************************)
(* Option::Type and Option::requiresParameter.                             *)
(***************************************************************************)
OptionTypes == {"Flag", "FlagCount", "Int", "Float", "String", "Path", "PathExisting"}

requiresParameter(opt) == opt.type # "Flag" /\ opt.type # "FlagCount"

(***************************************************************************)
(* The builders OptionFlag .. OptionPathExisting: Flag and FlagCount are   *)
(* never required, every option starts with isSet = false.                 *)
(***************************************************************************)
MkOption(type, shortName, longName, required) ==
    [type |-> type, shortName |-> shortName, longName |-> longName,
     isRequired |-> required, isSet |-> FALSE]

OptionFlag(shortName, longName) == MkOption("Flag", shortName, longName, FALSE)
OptionFlagCount(shortName, longName) == MkOption("FlagCount", shortName, longName, FALSE)
OptionInt(shortName, longName, required) == MkOption("Int", shortName, longName, required)
OptionFloat(shortName, longName, required) == MkOption("Float", shortName, longName, required)
OptionString(shortName, longName, required) == MkOption("String", shortName, longName, required)
OptionPath(shortName, longName, required) == MkOption("Path", shortName, longName, required)
OptionPathExisting(shortName, longName, required) == MkOption("PathExisting", shortName, longName, required)

(***************************************************************************)
(* A float is kept as the decimal it was read from: <<m, f>> stands for    *)
(* m / 10^f, with no trailing zero in the fraction.                        *)
(***************************************************************************)
RECURSIVE NormFloat(_, _)
NormFloat(m, f) ==
    IF f > 0 /\ m % 10 = 0 THEN NormFloat(m \div 10, f - 1) ELSE <<m, f>>

(***************************************************************************)
(* atoi / atof on the strings isNumeric lets through: an optional sign,    *)
(* then digits (for atof with one decimal point among them), read up to    *)
(* the first character that does not fit.  The literals of the model are   *)
(* too short to overflow an int.                                           *)
(***************************************************************************)
RECURSIVE DigitRun(_, _)
\* the number of digits at the start of s from C index k on
DigitRun(s, k) ==
    IF k < strlen(s) /\ At(s, k) \in Digits THEN 1 + DigitRun(s, k + 1) ELSE 0

RECURSIVE DigitsValue(_, _, _)
\* the value of the n digits of s that start at C index k
DigitsValue(s, k, n) ==
    IF n = 0 THEN 0
    ELSE 10 * DigitsValue(s, k, n - 1) + DigitVal(At(s, k + n - 1))

RECURSIVE Pow10(_)
Pow10(n) == IF n = 0 THEN 1 ELSE 10 * Pow10(n - 1)

HasSign(s) == strlen(s) > 0 /\ At(s, 0) \in {"+", "-"}

SignOf(s) == IF strlen(s) > 0 /\ At(s, 0) = "-" THEN -1 ELSE 1

atoi(s) ==
    LET b == IF HasSign(s) THEN 1 ELSE 0
    IN  SignOf(s) * DigitsValue(s, b, DigitRun(s, b))

atof(s) ==
    LET b  == IF HasSign(s) THEN 1 ELSE 0
        n  == DigitRun(s, b)
        dp == b + n
        f  == IF dp < strlen(s) /\ At(s, dp) = "." THEN DigitRun(s, dp + 1) ELSE 0
        m  == DigitsValue(s, b, n) * Pow10(f) + DigitsValue(s, dp + 1, f)
    IN  NormFloat(SignOf(s) * m, f)

(***************************************************************************)
(* Parser::isNumeric: the loop over the characters of str, started at      *)
(* index 0 with beginExponent = foundDecimal = false.                      *)
(***************************************************************************)
\* otherChar that lets the scan of the literal go on
otherChar_Continue(c) == TRUE

\* isNumeric's default case: any other character ends the scan with false
otherChar(c) == FALSE

RECURSIVE isNumericFrom(_, _, _, _, _)
isNumericFrom(str, k, floatingPoint, beginExponent, foundDecimal) ==
    IF ~(k < strlen(str)) THEN TRUE
    ELSE LET c == At(str, k) IN
         CASE c \in Digits ->
                isNumericFrom(str, k + 1, floatingPoint, beginExponent, foundDecimal)
           [] c \in {"-", "+"} ->
                IF k = 0 \/ (floatingPoint /\ beginExponent)
                THEN isNumericFrom(str, k + 1, floatingPoint, beginExponent, foundDecimal)
                ELSE FALSE
           [] c = "." ->
                IF floatingPoint /\ ~foundDecimal
                THEN isNumericFrom(str, k + 1, floatingPoint, beginExponent, TRUE)
                ELSE FALSE
           [] c \in {"e", "E"} -> FALSE
           [] OTHER ->
                IF otherChar(c)
                THEN isNumericFrom(str, k + 1, floatingPoint, beginExponent, foundDecimal)
                ELSE FALSE

isNumeric(str, floatingPoint) == isNumericFrom(str, 0, floatingPoint, FALSE, FALSE)

(***************************************************************************)
(* The parser as a value: the members Parser::options and                  *)
(* Parser::remaining, the caller's variables behind the valuePointers      *)
(* (vals[k] is the variable option k is bound to) and what CLI_LOG_ERROR   *)
(* has written so far.                                                     *)
(***************************************************************************)
ParserOf(o, v, r, l) == [options |-> o, vals |-> v, remaining |-> r, log |-> l]

\* CLI_LOG_ERROR: one entry per message; opt is the index of the option the
\* message names (0 for none), text the character or token it quotes.
LogError(P, kind, k, text) ==
    [P EXCEPT !.log = Append(@, [kind |-> kind, opt |-> k, text |-> text])]

Return(P, r) == [P |-> P, result |-> r]

\* isDuplicate that stops only a Flag given again
isDuplicate_FlagsOnly(opt) == opt.type = "Flag" /\ opt.isSet

\* isDuplicate that lets every option through
isDuplicate_Never(opt) == FALSE

\* applyOption's first test: the option was applied before and is no FlagCount
isDuplicate(opt) == opt.type # "FlagCount" /\ opt.isSet

\* countUp that sets the count instead of raising it
countUp_SetToOne(n) == 1

\* opt.as<int>()++ of a FlagCount
countUp(n) == n + 1

\* markSet that leaves the option unmarked
markSet_Never(P, k) == P

\* opt.isSet = true
markSet(P, k) == [P EXCEPT !.options[k].isSet = TRUE]

\* argParam that takes the option's own token
argParam_OptionToken(args) == args[1]

\* argParam = argv[1], the token after the option's
argParam(args) == args[2]

(***************************************************************************)
(* Parser::applyOption(opt, argc, argv) for opt = options[k]; args is the  *)
(* rest of the argument vector from the option's token on, so argc is      *)
(* Len(args) and argv[1] is args[2].  The code reads argParam = argv[1]    *)
(* for every option; only the options with a parameter use it, and for     *)
(* them argc >= 2 has been tested.                                         *)
(***************************************************************************)
applyOption(P, k, args) ==
    LET opt == P.options[k]
        argc == Len(args)
    IN  IF isDuplicate(opt)
        THEN Return(LogError(P, "duplicate", k, <<>>), -1)
        ELSE LET P1 == markSet(P, k) IN
             IF requiresParameter(opt) /\ argc < 2
             THEN Return(LogError(P1, "requires_parameter", k, <<>>), -1)
             ELSE CASE opt.type = "Flag" ->
                         Return([P1 EXCEPT !.vals[k] = TRUE], 0)
                    [] opt.type = "FlagCount" ->
                         Return([P1 EXCEPT !.vals[k] = countUp(@)], 0)
                    [] opt.type = "Int" ->
                         IF ~isNumeric(argParam(args), FALSE)
                         THEN Return(LogError(P1, "invalid_integer", k, argParam(args)), -1)
                         ELSE Return([P1 EXCEPT !.vals[k] = atoi(argParam(args))], 1)
                    [] opt.type = "Float" ->
                         IF ~isNumeric(argParam(args), TRUE)
                         THEN Return(LogError(P1, "invalid_float", k, argParam(args)), -1)
                         ELSE Return([P1 EXCEPT !.vals[k] = atof(argParam(args))], 1)
                    [] opt.type \in {"String", "Path", "PathExisting"} ->
                         Return([P1 EXCEPT !.vals[k] = argParam(args)], 1)

\* inMiddle that never objects
inMiddle_Never(opt, arg, c) == FALSE

\* the option at C index c of the cluster arg takes a parameter and is not
\* the cluster's last character
inMiddle(opt, arg, c) == requiresParameter(opt) /\ c < strlen(arg) - 1

(***************************************************************************)
(* Parser::handleOption, short form: one round of the loop over the        *)
(* characters of the cluster, for the character at C index c.  The inner   *)
(* loop runs over the options in declaration order from k on.  A result    *)
(* other than 0 is what handleOption returns at once; 0 lets the cluster   *)
(* go on.                                                                  *)
(***************************************************************************)
RECURSIVE shortCharFrom(_, _, _, _, _)
shortCharFrom(P, args, c, k, handled) ==
    LET arg == args[1] IN
    IF k > Len(P.options)
    THEN IF ~handled
         THEN Return(LogError(P, "unknown_short", 0, <<At(arg, c)>>), -1)
         ELSE Return(P, 0)
    ELSE IF P.options[k].shortName = At(arg, c)
         THEN IF inMiddle(P.options[k], arg, c)
              THEN Return(LogError(P, "middle_of_flag_list", k, <<>>), -1)
              ELSE LET r == applyOption(P, k, args) IN
                   IF r.result # 0 THEN r
                   ELSE shortCharFrom(r.P, args, c, k + 1, TRUE)
         ELSE shortCharFrom(P, args, c, k + 1, handled)

\* shortChar whose handled is declared once for the whole cluster
shortChar_HandledOnce(P, args, c) == shortCharFrom(P, args, c, 1, c > 1)

\* bool handled = false; for(Option& opt : options) ...
shortChar(P, args, c) == shortCharFrom(P, args, c, 1, FALSE)

RECURSIVE shortCluster(_, _, _)
\* the loop over the characters of the cluster from C index c on
shortCluster(P, args, c) ==
    IF ~(c < strlen(args[1])) THEN Return(P, 0)
    ELSE LET r == shortChar(P, args, c) IN
         IF r.result # 0 THEN r ELSE shortCluster(r.P, args, c + 1)

\* longOptionFrom that does not pass on the count of consumed parameters
longOptionFrom_NoConsume(P, args, k) ==
    LET hits == {m \in k..Len(P.options) : Tail_n(args[1], 2) = P.options[m].longName}
    IN  IF hits = {}
        THEN Return(LogError(P, "unknown_option", 0, args[1]), -1)
        ELSE LET r == applyOption(P, CHOOSE m \in hits : \A n \in hits : m <= n, args)
             IN  IF r.result > 0 THEN Return(r.P, 0) ELSE r

RECURSIVE longOptionFrom(_, _, _)
\* Parser::handleOption, long form: the loop over the options from k on
longOptionFrom(P, args, k) ==
    IF k > Len(P.options)
    THEN Return(LogError(P, "unknown_option", 0, args[1]), -1)
    ELSE IF Tail_n(args[1], 2) = P.options[k].longName
         THEN applyOption(P, k, args)
         ELSE longOptionFrom(P, args, k + 1)

\* the tests handleOption makes on its token
IsOptionToken(arg) == strlen(arg) > 1 /\ At(arg, 0) = "-"
IsShortToken(arg) == IsOptionToken(arg) /\ At(arg, 1) # "-"
IsLongToken(arg) == IsOptionToken(arg) /\ At(arg, 1) = "-"

\* push_back that puts the argument in front
push_back_Front(r, arg) == <<arg>> \o r

\* remaining.push_back(arg)
push_back(r, arg) == Append(r, arg)

(***************************************************************************)
(* Parser::handleOption(argc, argv) as a whole.                            *)
(***************************************************************************)
handleOption(P, args) ==
    LET arg == args[1] IN
    IF IsOptionToken(arg)
    THEN IF At(arg, 1) # "-"
         THEN shortCluster(P, args, 1)
         ELSE longOptionFrom(P, args, 1)
    ELSE Return([P EXCEPT !.remaining = push_back(@, arg)], 0)

\* requiredFrom with the check of the required options left out
requiredFrom_NoCheck(P, k) == Return(P, TRUE)

\* requiredFrom looking at the first declared option only
requiredFrom_FirstOnly(P, k) ==
    IF k > Len(P.options) THEN Return(P, TRUE)
    ELSE IF P.options[k].isRequired /\ ~P.options[k].isSet
         THEN Return(LogError(P, "required", k, <<>>), FALSE)
         ELSE Return(P, TRUE)

\* requiredFrom reporting the last required option that is not set
requiredFrom_LastMissing(P, k) ==
    LET missing == {m \in k..Len(P.options) : P.options[m].isRequired /\ ~P.options[m].isSet}
    IN  IF missing = {} THEN Return(P, TRUE)
        ELSE Return(LogError(P, "required", CHOOSE m \in missing : \A n \in missing : n <= m, <<>>),
                    FALSE)

RECURSIVE requiredFrom(_, _)
\* Parser::parse, second loop: the first required option that is not set
\* is reported and parse returns false
requiredFrom(P, k) ==
    IF k > Len(P.options) THEN Return(P, TRUE)
    ELSE IF P.options[k].isRequired /\ ~P.options[k].isSet
         THEN Return(LogError(P, "required", k, <<>>), FALSE)
         ELSE requiredFrom(P, k + 1)

\* nextIndex that skips a token after every token
nextIndex_SkipAlways(j, r) == j + 2

\* nextIndex that does not skip the consumed parameter
nextIndex_NoSkip(j, r) == j + 1

\* the index of parse's first loop after a round at j in which handleOption
\* returned r: i += result, then ++i
nextIndex(j, r) == j + r + 1

RECURSIVE parseFrom(_, _, _)
\* Parser::parse from the round of its first loop with C index j on
parseFrom(P, av, j) ==
    IF ~(j < Len(av)) THEN requiredFrom(P, 1)
    ELSE LET r == handleOption(P, Tail_n(av, j)) IN
         IF r.result < 0 THEN Return(r.P, FALSE)
         ELSE parseFrom(r.P, av, nextIndex(j, r.result))

\* Parser::parse(argc, argv) run to its return
parse(P, av) == parseFrom(P, av, 1)

(***************************************************************************)
(* The declared options: those of the test "Option types"                  *)
(* (src/tests/cli_test.cpp) with two PathExisting options added, in        *)
(* declaration order.  req is the set of the options declared required.    *)
(***************************************************************************)
Registry(req) ==
    << OptionInt("I", <<"i", "n", "t">>, 1 \in req),
       OptionFloat("F", <<"f", "l", "o", "a", "t">>, 2 \in req),
       OptionString("S", <<"s", "t", "r", "i", "n", "g">>, 3 \in req),
       OptionPath("f", <<"o", "u", "t", "p", "u", "t", "-", "f", "i", "l", "e">>, 4 \in req),
       OptionFlag("D", <<"d", "e", "b", "u", "g">>),
       OptionFlagCount("v", <<"v", "e", "r", "b", "o", "s", "e">>),
       OptionPathExisting("P", <<"p", "a", "t", "h">>, 7 \in req),
       OptionPathExisting("i", <<"i", "n", "p", "u", "t", "-", "f", "i", "l", "e">>, 8 \in req) >>

\* the options by their place in the declaration order
OptIds == DOMAIN options

\* the value of a caller's string variable before parse ("Default option
\* values" in the tests)
DefaultString == <<"f", "i", "l", "e", "N", "a", "m", "e">>

\* the callers' variables before parse; count0 is the FlagCount variable
InitialVals(count0) ==
    << 7, <<7, 0>>, DefaultString, DefaultString, FALSE, count0, DefaultString,
       DefaultString >>

\* the declarations and initial values a parser is constructed with
Setups ==
    { [req |-> {}, count0 |-> 0], [req |-> {}, count0 |-> 2],
      [req |-> {3}, count0 |-> 0], [req |-> {1, 3}, count0 |-> 2] }

(***************************************************************************)
(* Argument vectors.                                                       *)
(***************************************************************************)
Exe == <<"t", "e", "s", "t", "E", "x", "e">>

Dash(s) == <<"-">> \o s

DashDash(s) == <<"-", "-">> \o s

\* the tokens the longer argument vectors are made of
CoreTokens ==
    { <<"a">>, <<"5">>,
      Dash(<<"v">>), Dash(<<"D">>), Dash(<<"S">>), Dash(<<"I">>),
      Dash(<<"v", "v", "v", "S">>),
      DashDash(<<"s", "t", "r", "i", "n", "g">>) }

MainTokens ==
    CoreTokens \cup
    { <<"-">>, <<>>,
      Dash(<<"x">>), Dash(<<"v", "D">>), Dash(<<"D", "D">>), Dash(<<"v", "v", "S", "v">>),
      Dash(<<"D", "I">>), Dash(<<"v", "x">>),
      DashDash(<<"v", "e", "r", "b", "o", "s", "e">>),
      DashDash(<<"d", "e", "b", "u", "g">>),
      DashDash(<<"n", "o", "p", "e">>),
      DashDash(<<>>) }

\* every sequence over S of length at most n
SeqsUpTo(S, n) == UNION { [1..m -> S] : m \in 0..n }

\* the executable name followed by at most MaxArgs core tokens, or by fewer
\* tokens of any kind
MainArgVectors ==
    { <<Exe>> \o t : t \in SeqsUpTo(CoreTokens, MaxArgs) \cup SeqsUpTo(MainTokens, MaxArgs - 1) }

\* the characters numeric literals are made of, and one that is none
LitChars == {"-", "+", "5", ".", "e", "a"}

NamedLiterals ==
    { <<"3", ".", "1", "4", "a", "b", "c">>, <<"2", ".", "5", "E", "-", "3">>,
      <<"1", "e", "+", "2">>, <<"1", "e", "5">>, <<"5", "e">>, <<"-", "5">>,
      <<"2", "3">>, <<"0", ".", "5">>, <<"1", "E", "5">> }

Literals == SeqsUpTo(LitChars, MaxLitLen) \cup NamedLiterals

NumericOptionTokens ==
    { Dash(<<"I">>), DashDash(<<"i", "n", "t">>),
      Dash(<<"F">>), DashDash(<<"f", "l", "o", "a", "t">>) }

\* a numeric option followed by a literal: every literal after the short
\* forms, the named ones after the long forms too
LiteralArgVectors ==
    { <<Exe, o, l>> : o \in { Dash(<<"I">>), Dash(<<"F">>) }, l \in Literals } \cup
    { <<Exe, o, l>> : o \in NumericOptionTokens, l \in NamedLiterals }

PathOptionTokens ==
    { Dash(<<"f">>), DashDash(<<"o", "u", "t", "p", "u", "t", "-", "f", "i", "l", "e">>),
      Dash(<<"P">>), DashDash(<<"p", "a", "t", "h">>), Dash(<<"P", "v">>) }

\* a path option followed by any token
PathArgVectors == { <<Exe, o, t>> : o \in PathOptionTokens, t \in MainTokens }

\* the argument vectors a parser with the required options req and the
\* initial count count0 is run on
ArgVectors(req, count0) ==
    MainArgVectors \cup
    (IF req = {} /\ count0 = 0 THEN LiteralArgVectors \cup PathArgVectors ELSE {})

(***************************************************************************)
(* The state machine.  pc: "idle" before parse is called, "scan" inside    *)
(* its first loop (i is the loop's index, ci the index of the next         *)
(* character of the short cluster handleOption is in, 0 outside one),      *)
(* "done" once parse has returned result.  visited lists the indices i at  *)
(* which the loop of parse called handleOption in the current call, calls  *)
(* the argument vector of every call of parse with the parser it found,    *)
(* files the paths fopen could open when validatePathOptions ran, and      *)
(* valid what validatePathOptions returned ("none" before it is called,    *)
(* "crash" if it did not return).                                          *)
(***************************************************************************)
CurP == ParserOf(options, vals, remaining, log)

SetP(P) ==
    /\ options' = P.options
    /\ vals' = P.vals
    /\ remaining' = P.remaining
    /\ log' = P.log

argc == Len(argv)

\* argv + i, the arguments handleOption is called with
Args == Tail_n(argv, i)

\* the state after Parser(options) was constructed over the option values v0
Constructed(opts, v0) ==
    /\ options = opts
    /\ vals0 = v0
    /\ vals = v0
    /\ remaining = <<>>
    /\ executableName = <<>>
    /\ log = <<>>
    /\ argv = <<>>
    /\ i = 0
    /\ ci = 0
    /\ pc = "idle"
    /\ result = FALSE
    /\ files = {}
    /\ valid = "none"
    /\ visited = <<>>
    /\ calls = <<>>

Init == \E s \in Setups : Constructed(Registry(s.req), InitialVals(s.count0))

\* a call of parse that starts from a parser with nothing set
ParseCallOn_Reset(S) ==
    /\ \E av \in S : argv' = av
    /\ executableName' = argv'[1]
    /\ i' = 1
    /\ ci' = 0
    /\ pc' = "scan"
    /\ visited' = <<>>
    /\ calls' = Append(calls, [argv |-> argv', entry |-> CurP])
    /\ options' = [k \in DOMAIN options |-> [options[k] EXCEPT !.isSet = FALSE]]
    /\ remaining' = <<>>
    /\ UNCHANGED <<vals, vals0, log, result, files, valid>>

\* parse is called: executableName = argv[0], i = 1.  The argument vectors
\* tried depend on how the parser was set up (vals0[6] is the initial count).
ParseCallOn(S) ==
    /\ \E av \in S : argv' = av
    /\ executableName' = argv'[1]
    /\ i' = 1
    /\ ci' = 0
    /\ pc' = "scan"
    /\ visited' = <<>>
    /\ calls' = Append(calls, [argv |-> argv', entry |-> CurP])
    /\ UNCHANGED <<options, vals, vals0, remaining, log, result, files, valid>>

\* the first call of parse on a parser
ParseCall ==
    /\ pc = "idle"
    /\ ParseCallOn(ArgVectors({k \in DOMAIN options : options[k].isRequired}, vals0[6]))

\* a loop that goes on to the next token after an error
AfterHandleOption_GoOn(r) ==
    /\ i' = nextIndex(i, IF r.result < 0 THEN 0 ELSE r.result)
    /\ UNCHANGED <<pc, result>>

\* what parse does with the value r.result handleOption returned
AfterHandleOption(r) ==
    IF r.result < 0
    THEN /\ result' = FALSE
         /\ pc' = "done"
         /\ UNCHANGED i
    ELSE /\ i' = nextIndex(i, r.result)
         /\ UNCHANGED <<pc, result>>

\* handleOption on a token that is no option: it goes to remaining
HandlePositional ==
    /\ pc = "scan" /\ i < argc
    /\ ~IsOptionToken(Args[1])
    /\ LET r == handleOption(CurP, Args) IN
          /\ SetP(r.P)
          /\ AfterHandleOption(r)
    /\ visited' = Append(visited, i)
    /\ UNCHANGED <<vals0, executableName, argv, ci, files, valid, calls>>

\* handleOption on a long option
HandleLong ==
    /\ pc = "scan" /\ i < argc
    /\ IsLongToken(Args[1])
    /\ LET r == handleOption(CurP, Args) IN
          /\ SetP(r.P)
          /\ AfterHandleOption(r)
    /\ visited' = Append(visited, i)
    /\ UNCHANGED <<vals0, executableName, argv, ci, files, valid, calls>>

\* handleOption on a short cluster: one round of its loop, for one character
HandleShortChar ==
    /\ pc = "scan" /\ i < argc
    /\ IsShortToken(Args[1])
    /\ LET c == IF ci = 0 THEN 1 ELSE ci
           r == shortChar(CurP, Args, c)
       IN  /\ SetP(r.P)
           /\ IF r.result = 0 /\ c + 1 < strlen(Args[1])
              THEN /\ ci' = c + 1
                   /\ UNCHANGED <<i, pc, result>>
              ELSE /\ ci' = 0
                   /\ AfterHandleOption(r)
    /\ visited' = IF ci = 0 THEN Append(visited, i) ELSE visited
    /\ UNCHANGED <<vals0, executableName, argv, files, valid, calls>>

\* the first loop of parse is over: the required options are checked and
\* parse returns
CheckRequired ==
    /\ pc = "scan" /\ ~(i < argc)
    /\ LET r == requiredFrom(CurP, 1) IN
          /\ SetP(r.P)
          /\ result' = r.result
    /\ pc' = "done"
    /\ UNCHANGED <<vals0, executableName, argv, i, ci, files, valid, visited, calls>>

Next ==
    \/ ParseCall
    \/ HandlePositional
    \/ HandleLong
    \/ HandleShortChar
    \/ CheckRequired

Spec == Init /\ [][Next]_vars

(***************************************************************************)
(* Parser::validatePathOptions and the life of one parser: parse may be    *)
(* called again on the same instance, and validatePathOptions is the last  *)
(* call made on it.                                                        *)
(***************************************************************************)
\* a null const char*, the value fileName has in the test "Path validation"
NullPtr == << "(null)" >>

\* the paths a bound value can name, and the sets of them fopen can open
Paths == { DefaultString, <<"a">> }

FileSystems == SUBSET Paths

\* checkExistsReadable(path) for a path that is a string: fopen(path, "rb")
\* succeeds on the files that can be opened
checkExistsReadable(fs, path) == path \in fs

\* the type test that also takes the Path options
checksReadable_AnyPath(type) == type \in { "Path", "PathExisting" }

\* opt.type == Option::Type::PathExisting
checksReadable(type) == type = "PathExisting"

RECURSIVE validateFrom(_, _, _, _)
\* the loop of validatePathOptions from option k on; ok is its local valid
validateFrom(P, fs, k, ok) ==
    IF k > Len(P.options)
    THEN [P |-> P, result |-> ok]
    ELSE IF checksReadable(P.options[k].type) /\ ~checkExistsReadable(fs, P.vals[k])
         THEN validateFrom(LogError(P, "not_readable", k, <<>>), fs, k + 1, FALSE)
         ELSE validateFrom(P, fs, k + 1, ok)

validatePathOptions(P, fs) == validateFrom(P, fs, 1, TRUE)

\* the checked options whose pointer is null: fopen(NULL, "rb") is undefined
NullPaths(P) ==
    { k \in DOMAIN P.options : checksReadable(P.options[k].type) /\ P.vals[k] = NullPtr }

Min(S) == CHOOSE m \in S : \A n \in S : m <= n

\* validatePathOptions is called between or after the calls of parse.  On a
\* null path fopen either fails or the call never returns; in the second
\* case the messages for the options before it are already written.
ValidatePathOptions ==
    /\ pc \in { "idle", "done" }
    /\ valid = "none"
    /\ \E fs \in FileSystems, faults \in BOOLEAN :
          /\ files' = fs
          /\ IF faults /\ NullPaths(CurP) # {}
             THEN LET n == Min(NullPaths(CurP))
                      r == validatePathOptions(
                              [CurP EXCEPT !.options = SubSeq(options, 1, n - 1)], fs)
                  IN  /\ valid' = "crash"
                      /\ log' = r.P.log
                      /\ UNCHANGED <<options, vals, remaining>>
             ELSE LET r == validatePathOptions(CurP, fs) IN
                      /\ SetP(r.P)
                      /\ valid' = IF r.result THEN "true" ELSE "false"
    /\ UNCHANGED <<vals0, executableName, argv, i, ci, pc, result, visited, calls>>

\* the parsers whose life is followed: option 8 starts on a null pointer or
\* on a string, option 3 is required or not
LifeSetups == { [req |-> r, input |-> p] : r \in { {}, {3} }, p \in { DefaultString, NullPtr } }

\* the argument vectors of the calls of parse in a life
LifeVectors ==
    { <<Exe>>,
      <<Exe, <<"a">>>>,
      <<Exe, Dash(<<"v">>)>>,
      <<Exe, Dash(<<"v", "D">>)>>,
      <<Exe, <<"a">>, Dash(<<"S">>), <<"a">>>>,
      <<Exe, DashDash(<<"s", "t", "r", "i", "n", "g">>), Dash(<<"v">>)>>,
      <<Exe, Dash(<<"S">>)>>,
      <<Exe, Dash(<<"I">>), <<"a">>>>,
      <<Exe, Dash(<<"P">>), <<"a">>>>,
      <<Exe, Dash(<<"P">>), <<"a">>, DashDash(<<"i", "n", "p", "u", "t", "-", "f", "i", "l", "e">>), <<"a">>>>,
      <<Exe, Dash(<<"x">>)>>,
      <<Exe, <<"5">>, DashDash(<<"v", "e", "r", "b", "o", "s", "e">>)>> }

InitLife ==
    \E s \in LifeSetups :
        Constructed(Registry(s.req), [InitialVals(0) EXCEPT ![8] = s.input])

\* parse is called, for the first time or again
ParseLife ==
    /\ pc \in { "idle", "done" }
    /\ valid = "none"
    /\ Len(calls) < MaxCalls
    /\ ParseCallOn(LifeVectors)

NextLife ==
    \/ ParseLife
    \/ HandlePositional
    \/ HandleLong
    \/ HandleShortChar
    \/ CheckRequired
    \/ ValidatePathOptions

SpecLife == InitLife /\ [][NextLife]_vars

(***************************************************************************)
(* What an argument vector says, read off its tokens and the declarations  *)
(* alone (none of the parser's operators is used here).  Positions are     *)
(* indices into argv, the executable name at 1.                            *)
(***************************************************************************)
ByShort(c) == {k \in OptIds : options[k].shortName = c}

ByLong(name) == {k \in OptIds : options[k].longName = name}

\* the characters of a short cluster, as C indices into the token
ClusterIdx(t) == 1..(Len(t) - 1)

\* the options whose parameter the token after t is, if t is read as an option
ClosingOptions(t) ==
    IF IsLongToken(t) THEN {k \in ByLong(Tail_n(t, 2)) : requiresParameter(options[k])}
    ELSE IF IsShortToken(t) THEN {k \in ByShort(t[Len(t)]) : requiresParameter(options[k])}
    ELSE {}

RECURSIVE Consumed(_, _)
\* the token at position j is the parameter of the option token before it
Consumed(av, j) ==
    /\ j > 2
    /\ ClosingOptions(av[j - 1]) # {}
    /\ ~Consumed(av, j - 1)

\* the positions read as option tokens, and as positional arguments
OptionPositions(av) == {j \in 2..Len(av) : ~Consumed(av, j) /\ IsOptionToken(av[j])}

PositionalPositions(av) == {j \in 2..Len(av) : ~Consumed(av, j) /\ ~IsOptionToken(av[j])}

\* how often the token t, read as an option token, invokes option k
InvokedIn(t, k) ==
    IF IsLongToken(t) THEN (IF options[k].longName = Tail_n(t, 2) THEN 1 ELSE 0)
    ELSE IF IsShortToken(t)
         THEN Cardinality({c \in ClusterIdx(t) : At(t, c) = options[k].shortName})
         ELSE 0

RECURSIVE SumOver(_, _, _)
SumOver(S, av, k) ==
    IF S = {} THEN 0
    ELSE LET j == CHOOSE x \in S : TRUE
         IN  InvokedIn(av[j], k) + SumOver(S \ {j}, av, k)

\* how often option k is invoked in the argument vector
Invocations(av, k) == SumOver(OptionPositions(av), av, k)

\* the token names declared options only
KnownToken(t) ==
    IF IsLongToken(t) THEN ByLong(Tail_n(t, 2)) # {}
    ELSE \A c \in ClusterIdx(t) : ByShort(At(t, c)) # {}

\* no character of a short cluster but the last names an option with a parameter
NoneInMiddle(t) ==
    IsShortToken(t) =>
        \A c \in ClusterIdx(t) : c < Len(t) - 1 =>
            \A k \in ByShort(At(t, c)) : ~requiresParameter(options[k])

\* the parameter the option token at j asks for is there, and a number to
\* isNumeric where the option is an Int or a Float
ParameterFits(av, j) ==
    \A k \in ClosingOptions(av[j]) :
        /\ j < Len(av)
        /\ options[k].type = "Int" => isNumeric(av[j + 1], FALSE)
        /\ options[k].type = "Float" => isNumeric(av[j + 1], TRUE)

\* the argument vector holds none of the errors of the scan
ErrorFree(av) ==
    LET at == OptionPositions(av) IN
    /\ \A j \in at :
          KnownToken(av[j]) /\ NoneInMiddle(av[j]) /\ ParameterFits(av, j)
    /\ \A k \in OptIds : options[k].type # "FlagCount" => SumOver(at, av, k) <= 1

Required == {k \in OptIds : options[k].isRequired}

\* a parser declared like this one, before its parse
Fresh == ParserOf([k \in OptIds |-> [options[k] EXCEPT !.isSet = FALSE]], vals0, <<>>, <<>>)

\* av with the tokens ts put in before position p
InsertAt(av, p, ts) == SubSeq(av, 1, p - 1) \o ts \o SubSeq(av, p, Len(av))

\* where tokens can be added without parting an option from its parameter
InsertPositions(av) == {p \in 2..(Len(av) + 1) : ~Consumed(av, p)}

ShortForm(k) == Dash(<<options[k].shortName>>)

LongForm(k) == DashDash(options[k].longName)

\* some parameters that are valid for option k
ValidParameters(k) ==
    IF options[k].type \in {"Int", "Float"}
    THEN {<<"5">>, <<"-", "5">>}
    ELSE {<<"a">>, Dash(<<"v">>), <<>>}

(***************************************************************************)
(* C1: parse returns true exactly when the argument vector holds no scan   *)
(* error (unknown option, parameter option in the middle of a cluster,     *)
(* missing parameter, duplicate, parameter rejected by the literal check)  *)
(* and every required option is set at the end; exactly then nothing was   *)
(* reported and every token was scanned.                                   *)
(***************************************************************************)
C1_ParseResult ==
    pc = "done" =>
        /\ result = (ErrorFree(argv) /\ \A k \in Required : options[k].isSet)
        /\ result = (log = <<>>)
        /\ result => ~(i < argc)

C1_Witness ==
    /\ pc = "done" /\ result
    /\ Required # {}
    /\ Len(argv) = 4
    /\ Len(remaining) = 1

(***************************************************************************)
(* C2: a required option that is never invoked makes parse return false;   *)
(* when that is the only thing wrong, a fresh parser declared alike        *)
(* returns true for the same argument vector with the option and a valid   *)
(* parameter added, in short or in long form.                              *)
(***************************************************************************)
C2_RequiredMissing ==
    pc = "done" =>
        \A k \in Required :
            Invocations(argv, k) = 0 =>
                /\ ~result
                /\ (ErrorFree(argv) /\ \A m \in Required \ {k} : options[m].isSet) =>
                      \A p \in InsertPositions(argv) :
                      \A form \in {ShortForm(k), LongForm(k)} :
                      \A v \in ValidParameters(k) :
                          parse(Fresh, InsertAt(argv, p, <<form, v>>)).result

C2_Witness ==
    /\ pc = "done" /\ ~result
    /\ Len(argv) = 3
    /\ Required = {3}
    /\ ErrorFree(argv)
    /\ Invocations(argv, 3) = 0
    /\ Invocations(argv, 6) > 0

\* the positional arguments of av from position j on, in order
RECURSIVE PositionalsFrom(_, _)
PositionalsFrom(av, j) ==
    IF j > Len(av) THEN <<>>
    ELSE IF j \in PositionalPositions(av)
         THEN <<av[j]>> \o PositionalsFrom(av, j + 1)
         ELSE PositionalsFrom(av, j + 1)

\* the tokens of av from position j on that do not begin with '-', in order
RECURSIVE NoDashFrom(_, _)
NoDashFrom(av, j) ==
    IF j > Len(av) THEN <<>>
    ELSE IF Len(av[j]) > 0 /\ av[j][1] = "-"
         THEN NoDashFrom(av, j + 1)
         ELSE <<av[j]>> \o NoDashFrom(av, j + 1)

\* the value a parameter token leaves in the variable of option k
Bound(k, t) ==
    CASE options[k].type = "Int" -> atoi(t)
      [] options[k].type = "Float" -> atof(t)
      [] OTHER -> t

(***************************************************************************)
(* C3: an argument vector that invokes an option other than a FlagCount    *)
(* twice (in short form, in long form, in both, or twice in one cluster)   *)
(* makes parse return false.                                               *)
(***************************************************************************)
C3_Duplicate ==
    pc = "done" =>
        \A k \in OptIds :
            (options[k].type # "FlagCount" /\ Invocations(argv, k) >= 2) => ~result

C3_Witness ==
    /\ pc = "done" /\ ~result
    /\ argv = <<Exe, LongForm(3), <<"a">>, ShortForm(3)>>
    /\ log = <<[kind |-> "duplicate", opt |-> 3, text |-> <<>>]>>

(***************************************************************************)
(* C4 as claimed: after parse the count of a FlagCount option invoked n    *)
(* times is n, and the initial value when n = 0.                           *)
(***************************************************************************)
C4_CountIsN ==
    pc = "done" =>
        \A k \in OptIds :
            options[k].type = "FlagCount" =>
                vals[k] = IF Invocations(argv, k) = 0 THEN vals0[k]
                          ELSE Invocations(argv, k)

(***************************************************************************)
(* C4 amended: after a parse whose scan met no error, the count of a       *)
(* FlagCount option invoked n times is its initial value plus n.           *)
(***************************************************************************)
C4_CountIsInitialPlusN ==
    (pc = "done" /\ ErrorFree(argv)) =>
        \A k \in OptIds :
            options[k].type = "FlagCount" =>
                vals[k] = vals0[k] + Invocations(argv, k)

C4_Witness ==
    /\ pc = "done" /\ result
    /\ argv = <<Exe, LongForm(6), Dash(<<"v", "D">>)>>
    /\ vals0[6] = 2
    /\ vals[6] = 4

(***************************************************************************)
(* C5 as claimed: after parse the remaining arguments are the tokens of    *)
(* argv[1:] that do not begin with '-', in their order.                    *)
(***************************************************************************)
C5_RemainingIsNoDash ==
    pc = "done" => remaining = NoDashFrom(argv, 2)

(***************************************************************************)
(* C5 amended: after a parse whose scan met no error, the remaining        *)
(* arguments are, in their order, the tokens of argv[1:] that are not the  *)
(* parameter of an option and either do not begin with '-' or are "-".     *)
(***************************************************************************)
C5_RemainingIsPositionals ==
    (pc = "done" /\ ErrorFree(argv)) => remaining = PositionalsFrom(argv, 2)

C5_Witness ==
    /\ pc = "done" /\ result
    /\ argv = <<Exe, ShortForm(3), <<"a">>, <<"5">>>>
    /\ remaining = <<<<"5">>>>

(***************************************************************************)
(* C6: a short cluster in which an option that takes a parameter stands    *)
(* before the last character makes parse return false, and the cluster     *)
(* does not apply that option: unless an earlier token invoked it, it is   *)
(* not set and its variable keeps its initial value.                       *)
(***************************************************************************)
C6_MiddleOfCluster ==
    pc = "done" =>
        \A j \in OptionPositions(argv) :
            LET t == argv[j] IN
            IsShortToken(t) =>
                \A c \in ClusterIdx(t) : \A k \in ByShort(At(t, c)) :
                    (requiresParameter(options[k]) /\ c < Len(t) - 1) =>
                        /\ ~result
                        /\ Invocations(SubSeq(argv, 1, j - 1), k) = 0 =>
                              /\ ~options[k].isSet
                              /\ vals[k] = vals0[k]

C6_Witness ==
    /\ pc = "done" /\ ~result
    /\ argv = <<Exe, Dash(<<"v", "v", "S", "v">>), <<"a">>>>
    /\ vals[6] = vals0[6] + 2
    /\ ~options[3].isSet
    /\ vals[3] = DefaultString

(***************************************************************************)
(* C7: when the scan meets no error, a short cluster that ends in an       *)
(* option with a parameter sets every flag before it, binds the next token *)
(* to that option and keeps that token out of the remaining arguments;     *)
(* "-vvvS a" with a count that starts at 0 gives the count 3, the string   *)
(* "a" and no remaining argument.                                          *)
(***************************************************************************)
C7_ParameterAtEnd ==
    (pc = "done" /\ ErrorFree(argv)) =>
        /\ \A j \in OptionPositions(argv) :
              LET t == argv[j] IN
              (IsShortToken(t) /\ ClosingOptions(t) # {}) =>
                  /\ \A c \in ClusterIdx(t) : \A k \in ByShort(At(t, c)) :
                        /\ options[k].isSet
                        /\ options[k].type = "Flag" => vals[k] = TRUE
                        /\ options[k].type = "FlagCount" => vals[k] >= vals0[k] + InvokedIn(t, k)
                  /\ \A k \in ClosingOptions(t) : vals[k] = Bound(k, argv[j + 1])
                  /\ \A m \in 1..Len(remaining) : remaining[m] # argv[j + 1] \/
                        \E q \in PositionalPositions(argv) : argv[q] = argv[j + 1]
        /\ Len(remaining) = Cardinality(PositionalPositions(argv))
        /\ (argv = <<Exe, Dash(<<"v", "v", "v", "S">>), <<"a">>>> /\ vals0[6] = 0) =>
              /\ vals[6] = 3
              /\ vals[3] = <<"a">>
              /\ remaining = <<>>
              /\ result = (Required \subseteq {3})

C7_Witness ==
    /\ pc = "done" /\ result
    /\ argv = <<Exe, Dash(<<"v", "v", "v", "S">>), <<"a">>>>
    /\ vals[6] = 3
    /\ vals[3] = <<"a">>
    /\ remaining = <<>>

(***************************************************************************)
(* The numeric literal grammar of the specification.                       *)
(***************************************************************************)
AllDigits(s) == \A p \in 1..Len(s) : s[p] \in Digits

\* one or more digits after an optional single leading sign
IntegerLiteral(s) ==
    LET body == IF HasSign(s) THEN Tail_n(s, 1) ELSE s
    IN  Len(body) >= 1 /\ AllDigits(body)

\* digits with at most one decimal point among them, at least one digit
DecimalDigits(s) ==
    /\ \A p \in 1..Len(s) : s[p] \in Digits \cup {"."}
    /\ \E p \in 1..Len(s) : s[p] \in Digits
    /\ Cardinality({p \in 1..Len(s) : s[p] = "."}) <= 1

ExponentMarks(s) == {p \in 1..Len(s) : s[p] \in {"e", "E"}}

\* the integer rule with at most one decimal point and at most one exponent
\* marker, which a sign may follow
FloatLiteral(s) ==
    LET body == IF HasSign(s) THEN Tail_n(s, 1) ELSE s
        marks == ExponentMarks(body)
    IN  \/ marks = {} /\ DecimalDigits(body)
        \/ \E p \in marks :
              /\ marks = {p}
              /\ DecimalDigits(SubSeq(body, 1, p - 1))
              /\ IntegerLiteral(Tail_n(body, p))

\* a character that is no digit, sign, decimal point or exponent marker
ForeignChar(s) == \E p \in 1..Len(s) : s[p] \notin Digits \cup {"+", "-", ".", "e", "E"}

\* a sign that neither leads the literal nor follows an exponent marker
MisplacedSign(s) == \E p \in 2..Len(s) : s[p] \in {"+", "-"} /\ s[p - 1] \notin {"e", "E"}

\* an exponent marker with no digit after it and its sign
BareExponent(s) ==
    \E p \in ExponentMarks(s) :
        LET q == IF p < Len(s) /\ s[p + 1] \in {"+", "-"} THEN p + 2 ELSE p + 1
        IN  q > Len(s) \/ s[q] \notin Digits

IntForms == {ShortForm(1), LongForm(1)}

FloatForms == {ShortForm(2), LongForm(2)}

\* parse has returned from <<executable, an option of forms, a literal>>
\* with no option required
LiteralRun(forms) ==
    /\ pc = "done"
    /\ Len(argv) = 3
    /\ argv[2] \in forms
    /\ Required = {}

(***************************************************************************)
(* C8 as claimed: an Int option accepts its parameter exactly when it is   *)
(* one or more digits after an optional leading sign; the empty string     *)
(* and a sign alone make parse return false.                               *)
(***************************************************************************)
C8_IntegerLiteral ==
    LiteralRun(IntForms) =>
        /\ result = IntegerLiteral(argv[3])
        /\ argv[3] \in {<<>>, <<"+">>, <<"-">>} => ~result

(***************************************************************************)
(* C9 as claimed: a Float option accepts every literal of the float        *)
(* grammar, "1e5", "2.5E-3" and "1e+2" among them, and rejects a literal   *)
(* with a second exponent marker or a second decimal point.                *)
(***************************************************************************)
C9_FloatLiteral ==
    LiteralRun(FloatForms) =>
        /\ FloatLiteral(argv[3]) => result
        /\ Cardinality(ExponentMarks(argv[3])) >= 2 => ~result
        /\ Cardinality({p \in 1..Len(argv[3]) : argv[3][p] = "."}) >= 2 => ~result

(***************************************************************************)
(* C10: a Float option whose parameter holds a character outside the       *)
(* float grammar (as in "3.14abc") or an exponent marker with no digits    *)
(* after it (as in "5e") makes parse return false and leaves the float as  *)
(* it was; an Int option with the parameter "-5" makes parse return true   *)
(* with the integer -5.                                                    *)
(***************************************************************************)
C10_LiteralErrors ==
    /\ (/\ LiteralRun(FloatForms)
        /\ ForeignChar(argv[3]) \/ MisplacedSign(argv[3]) \/ BareExponent(argv[3])) =>
              /\ ~result
              /\ vals[2] = vals0[2]
              /\ log = <<[kind |-> "invalid_float", opt |-> 2, text |-> argv[3]]>>
    /\ (LiteralRun(IntForms) /\ argv[3] = <<"-", "5">>) =>
          /\ result
          /\ vals[1] = -5

C10_Witness ==
    /\ pc = "done" /\ ~result
    /\ argv = <<Exe, ShortForm(2), <<"3", ".", "1", "4", "a", "b", "c">>>>
    /\ vals[2] = <<7, 0>>
    /\ options[2].isSet

(***************************************************************************)
(* C11: validatePathOptions returns true exactly when the path bound to    *)
(* every declared PathExisting option, set or not, can be opened; it looks *)
(* at every such option and writes one message for each that fails, in     *)
(* declaration order, without stopping at the first; options of the other  *)
(* kinds, Path included, play no part; and the call changes no isSet, no   *)
(* bound value and no remaining argument.                                  *)
(***************************************************************************)
\* the PathExisting options whose bound path is not among the files fs
Unreadable(fs) == {k \in OptIds : options[k].type = "PathExisting" /\ vals[k] \notin fs}

C11_ValidatePathOptions ==
    [][(valid = "none" /\ valid' # "none") =>
          /\ options' = options /\ vals' = vals /\ remaining' = remaining
          /\ valid' \in {"true", "false"} =>
                /\ (valid' = "true") <=> (Unreadable(files') = {})
                /\ Len(log') = Len(log) + Cardinality(Unreadable(files'))
                /\ SubSeq(log', 1, Len(log)) = log
                /\ \A a \in (Len(log) + 1)..Len(log') :
                      /\ log'[a].kind = "not_readable"
                      /\ log'[a].opt \in Unreadable(files')
                      /\ \A b \in (a + 1)..Len(log') : log'[a].opt < log'[b].opt
      ]_vars

C11_Witness ==
    /\ valid = "false"
    /\ files = {<<"a">>}
    /\ options[3].isSet /\ vals[3] = <<"a">>
    /\ vals[4] = DefaultString
    /\ ~options[7].isSet /\ vals[7] = DefaultString
    /\ ~options[8].isSet /\ vals[8] = DefaultString
    /\ log = << [kind |-> "not_readable", opt |-> 7, text |-> <<>>],
                [kind |-> "not_readable", opt |-> 8, text |-> <<>>] >>

(***************************************************************************)
(* C12: when the scan fails at a token, parse returns false there and      *)
(* undoes nothing: what the tokens before it did, and what the characters  *)
(* of a failing short cluster before the failing one did, is all still in  *)
(* place ("-vvSv value" leaves the count two higher), and nothing else is: *)
(* the state is fixed by the tokens up to the failing one, so those after  *)
(* it have touched no binding and added no remaining argument.             *)
(***************************************************************************)
\* the executable name and the tokens before the one the loop of parse is at
Before == SubSeq(argv, 1, i)

\* the parameter of the option token t = argv[i + 1] is missing or no number
BadParameter(k) ==
    /\ requiresParameter(options[k])
    /\ \/ i + 1 = argc
       \/ options[k].type = "Int" /\ ~isNumeric(argv[i + 2], FALSE)
       \/ options[k].type = "Float" /\ ~isNumeric(argv[i + 2], TRUE)

\* character c of the short cluster t = argv[i + 1] cannot be applied
FailsAt(t, c) ==
    \/ ByShort(At(t, c)) = {}
    \/ \E k \in ByShort(At(t, c)) :
          \/ requiresParameter(options[k]) /\ c < Len(t) - 1
          \/ /\ options[k].type # "FlagCount"
             /\ \/ Invocations(Before, k) > 0
                \/ \E b \in 1..(c - 1) : At(t, b) = At(t, c)
          \/ c = Len(t) - 1 /\ BadParameter(k)

\* the first character of the short cluster t that cannot be applied, as a
\* C index; 0 if t is no short cluster or all of it can
FirstBad(t) ==
    IF IsShortToken(t)
    THEN LET bad == {c \in ClusterIdx(t) : FailsAt(t, c)}
         IN  IF bad = {} THEN 0 ELSE Min(bad)
    ELSE 0

\* how often option k is applied by the characters of t before the one at bad
AppliedIn(t, k, bad) == Cardinality({c \in 1..(bad - 1) : At(t, c) = options[k].shortName})

\* the option the failing token t was at when it failed, if it got to one
FailedOn(t, bad) ==
    IF IsLongToken(t) THEN ByLong(Tail_n(t, 2))
    ELSE IF bad > 0 THEN ByShort(At(t, bad)) ELSE {}

\* the value option k holds once the error-free vector av is scanned and
\* option k was applied extra more times after it
ValueAfter(av, k, extra) ==
    LET n == Invocations(av, k) + extra IN
    CASE options[k].type = "FlagCount" -> vals0[k] + n
      [] options[k].type = "Flag" -> IF n > 0 THEN TRUE ELSE vals0[k]
      [] OTHER ->
           IF \E j \in OptionPositions(av) : k \in ClosingOptions(av[j])
           THEN LET j == CHOOSE j \in OptionPositions(av) : k \in ClosingOptions(av[j])
                IN  Bound(k, av[j + 1])
           ELSE vals0[k]

C12_NoRollback ==
    (pc = "done" /\ ~ErrorFree(argv)) =>
        /\ ~result
        /\ i < argc
        /\ ErrorFree(Before)
        /\ IsOptionToken(argv[i + 1])
        /\ remaining = PositionalsFrom(Before, 2)
        /\ LET bad == FirstBad(argv[i + 1])
                failed == FailedOn(argv[i + 1], bad)
           IN  \A k \in OptIds :
                  LET extra == AppliedIn(argv[i + 1], k, bad)
                      n == Invocations(Before, k) + extra
                  IN  /\ vals[k] = ValueAfter(Before, k, extra)
                      /\ n > 0 => options[k].isSet
                      /\ (options[k].isSet /\ k \notin failed) => n > 0

C12_Witness ==
    /\ pc = "done" /\ ~result
    /\ argv = <<Exe, Dash(<<"v", "v", "S", "v">>), <<"a">>>>
    /\ vals0[6] = 0 /\ vals[6] = 2
    /\ options[6].isSet /\ ~options[3].isSet
    /\ vals[3] = vals0[3]
    /\ remaining = <<>>
    /\ log = <<[kind |-> "middle_of_flag_list", opt |-> 3, text |-> <<>>]>>

(***************************************************************************)
(* The three groups of tokens after a parse.  Positions are C indices into *)
(* argv here.                                                              *)
(***************************************************************************)
StartsWithDash(t) == Len(t) > 0 /\ t[1] = "-"

\* the indices handleOption was called at
Visited == {visited[n] : n \in DOMAIN visited}

\* the tokens handleOption took as options, and those it filed as positional
TakenAsOption == {j \in Visited : StartsWithDash(At(argv, j)) /\ Len(At(argv, j)) > 1}

FiledAsPositional == Visited \ TakenAsOption

\* the tokens the loop of parse skipped
Skipped == (1..(argc - 1)) \ Visited

RECURSIVE TokensAt(_, _)
\* the tokens of av at the indices of the sequence js that are in S, in order
TokensAt(js, S) ==
    IF js = <<>> THEN <<>>
    ELSE (IF Head(js) \in S THEN <<At(argv, Head(js))>> ELSE <<>>) \o TokensAt(Tail(js), S)

\* the tokens that start with '-' and are longer than one character
LooksLikeOption == {j \in 1..(argc - 1) : StartsWithDash(At(argv, j)) /\ Len(At(argv, j)) > 1}

(***************************************************************************)
(* C13 as claimed: after a successful parse every token after the          *)
(* executable name is exactly one of: an option token (it starts with '-'  *)
(* and is longer than one character), the parameter consumed by the        *)
(* parameter option that closes the token right before it, or a positional *)
(* argument; so remaining, the option tokens and the consumed parameters   *)
(* number argc - 1 together.                                               *)
(***************************************************************************)
C13_OptionByItsText ==
    (pc = "done" /\ result) =>
        /\ \A j \in 1..(argc - 1) :
              /\ j \in LooksLikeOption \/ j \in Skipped \/ j \in FiledAsPositional
              /\ ~(j \in LooksLikeOption /\ j \in Skipped)
              /\ ~(j \in LooksLikeOption /\ j \in FiledAsPositional)
              /\ ~(j \in Skipped /\ j \in FiledAsPositional)
        /\ Len(remaining) + Cardinality(LooksLikeOption) + Cardinality(Skipped) = argc - 1

(***************************************************************************)
(* C13 amended: after a successful parse every token after the executable  *)
(* name is exactly one of: the parameter consumed by the parameter option  *)
(* that closes the token right before it, an option token (it is no        *)
(* consumed parameter, starts with '-' and is longer than one character),  *)
(* or a positional argument.  A token is positional exactly when it is no  *)
(* consumed parameter and does not start with '-' or is "-" itself.  So    *)
(* remaining, the option tokens and the consumed parameters number         *)
(* argc - 1 together, and the executable name is in none of the groups.    *)
(***************************************************************************)
C13_Partition ==
    (pc = "done" /\ result) =>
        /\ Visited \subseteq 1..(argc - 1)
        /\ \A n \in 1..(Len(visited) - 1) : visited[n] < visited[n + 1]
        /\ \A j \in Skipped :
              /\ (j - 1) \in TakenAsOption
              /\ ClosingOptions(At(argv, j - 1)) # {}
        /\ \A j \in TakenAsOption :
              ClosingOptions(At(argv, j)) # {} => (j + 1) \in Skipped
        /\ Skipped = {j \in 1..(argc - 1) : Consumed(argv, j + 1)}
        /\ TakenAsOption = LooksLikeOption \ Skipped
        /\ \A j \in 1..(argc - 1) :
              j \in FiledAsPositional <=>
                 (j \notin Skipped /\ (~StartsWithDash(At(argv, j)) \/ At(argv, j) = <<"-">>))
        /\ remaining = TokensAt(visited, FiledAsPositional)
        /\ Len(remaining) = Cardinality(FiledAsPositional)
        /\ Len(remaining) + Cardinality(TakenAsOption) + Cardinality(Skipped) = argc - 1
        /\ executableName = At(argv, 0)

C13_Witness ==
    /\ pc = "done" /\ result
    /\ argv = <<Exe, <<"a">>, Dash(<<"S">>), Dash(<<"v">>)>>
    /\ visited = <<1, 2>>
    /\ remaining = << <<"a">> >>
    /\ vals[3] = Dash(<<"v">>)
    /\ executableName = Exe

(***************************************************************************)
(* C14: the token after an option that takes a parameter is that option's  *)
(* parameter whatever it says.  handleOption is never called on it, so it  *)
(* is not applied as an option, marks no option as set and does not enter  *)
(* remaining, even if it begins with '-' or spells a declared option as in *)
(* "-S -v"; and a String, Path or PathExisting option that was applied is  *)
(* bound to exactly that token.                                            *)
(***************************************************************************)
\* the option token at index j was applied to its end
AppliedFully(j) == j \in TakenAsOption /\ (j < i \/ (pc = "done" /\ result))

C14_ParameterVerbatim ==
    /\ \A j \in TakenAsOption :
          ClosingOptions(At(argv, j)) # {} => (j + 1) \notin Visited
    /\ remaining = TokensAt(visited, FiledAsPositional)
    /\ \A m \in OptIds :
          options[m].isSet => \E j \in TakenAsOption : InvokedIn(At(argv, j), m) > 0
    /\ \A j \in TakenAsOption : \A k \in ClosingOptions(At(argv, j)) :
          (AppliedFully(j) /\ options[k].type \in {"String", "Path", "PathExisting"}) =>
              /\ j + 1 < argc
              /\ vals[k] = At(argv, j + 1)
              /\ options[k].isSet

C14_Witness ==
    /\ pc = "done" /\ result
    /\ argv = <<Exe, Dash(<<"S">>), Dash(<<"v">>)>>
    /\ visited = <<1>>
    /\ vals[3] = Dash(<<"v">>)
    /\ ~options[6].isSet /\ vals[6] = vals0[6]
    /\ remaining = <<>>

(***************************************************************************)
(* C15: the required options are checked only after the whole argument     *)
(* vector was scanned without error.  When parse fails over a missing      *)
(* required option, every token has been applied (the options given are    *)
(* bound and remaining holds every positional argument), and the option    *)
(* reported is the first in declaration order that is required and not     *)
(* set; and a scan error anywhere in the argument vector is reported       *)
(* instead of a missing required option.                                   *)
(***************************************************************************)
RequiredReports == {n \in DOMAIN log : log[n].kind = "required"}

MissingRequired == {k \in Required : Invocations(argv, k) = 0}

C15_RequiredAfterScan ==
    pc = "done" =>
        /\ RequiredReports # {} =>
              /\ ~result
              /\ ErrorFree(argv)
              /\ ~(i < argc)
              /\ Len(log) = 1
              /\ MissingRequired # {}
              /\ log[1].opt = Min(MissingRequired)
              /\ remaining = PositionalsFrom(argv, 2)
              /\ \A k \in OptIds :
                    /\ options[k].isSet <=> Invocations(argv, k) > 0
                    /\ vals[k] = ValueAfter(argv, k, 0)
        /\ ~ErrorFree(argv) =>
              /\ RequiredReports = {}
              /\ Len(log) = 1
        /\ (ErrorFree(argv) /\ MissingRequired # {}) => RequiredReports # {}

C15_Witness ==
    /\ pc = "done" /\ ~result
    /\ Required = {1, 3}
    /\ argv = <<Exe, <<"a">>, Dash(<<"v">>), <<"5">>>>
    /\ log = <<[kind |-> "required", opt |-> 1, text |-> <<>>]>>
    /\ remaining = << <<"a">>, <<"5">> >>
    /\ vals[6] = vals0[6] + 1
    /\ i = 4

(***************************************************************************)
(* C16: over the life of a parser, whatever calls are made on it, isSet of *)
(* an option never goes from true back to false; the value of an option    *)
(* that is no FlagCount changes only in the step that marks the option as  *)
(* set, hence at most once; and the count of a FlagCount never goes down   *)
(* and rises by exactly one in each step that applies the option, and in   *)
(* no other.                                                               *)
(***************************************************************************)
\* the next step of the scan applies option k: the loop is at a long token
\* with its name, or at a character of a short cluster that is its letter
AboutToApply(k) ==
    /\ pc = "scan" /\ i < argc
    /\ LET t == At(argv, i) IN
          \/ StartsWithDash(t) /\ Len(t) > 1 /\ t[2] = "-"
                /\ SubSeq(t, 3, Len(t)) = options[k].longName
          \/ StartsWithDash(t) /\ Len(t) > 1 /\ t[2] # "-"
                /\ t[(IF ci = 0 THEN 1 ELSE ci) + 1] = options[k].shortName

C16_Monotone ==
    [][\A k \in OptIds :
          /\ options[k].isSet => options'[k].isSet
          /\ options[k].type # "FlagCount" =>
                (vals'[k] # vals[k] => (~options[k].isSet /\ options'[k].isSet))
          /\ options[k].type = "FlagCount" =>
                vals'[k] = vals[k] + (IF AboutToApply(k) THEN 1 ELSE 0)
      ]_vars

C16_Witness ==
    /\ pc = "done" /\ ~result
    /\ Len(calls) = 2
    /\ calls[1].argv = <<Exe, Dash(<<"v", "D">>)>>
    /\ calls[2].argv = <<Exe, Dash(<<"v", "D">>)>>
    /\ calls[2].entry.vals[6] = vals0[6] + 1
    /\ calls[2].entry.options[5].isSet
    /\ vals[6] = vals0[6] + 2
    /\ options[5].isSet /\ vals[5] = TRUE
    /\ log[Len(log)] = [kind |-> "duplicate", opt |-> 5, text |-> <<>>]

(***************************************************************************)
(* C17: when the scan comes to an option that takes a parameter and the    *)
(* option's token is the last of the argument vector (in short form, as    *)
(* the final character of a cluster, or in long form), parse returns false *)
(* and the option's value is as it was; the same when the parameter of an  *)
(* Int or Float option fails the literal check.  In both cases the option  *)
(* is marked as set all the same, the mark being made before the parameter *)
(* is looked at.                                                           *)
(***************************************************************************)
\* the characters of the short cluster t before the last can all be applied
\* after the error-free vector av
CleanStart(av, t) ==
    IsShortToken(t) =>
        \A c \in 1..(Len(t) - 2) :
            /\ ByShort(At(t, c)) # {}
            /\ \A m \in ByShort(At(t, c)) :
                  /\ ~requiresParameter(options[m])
                  /\ options[m].type # "FlagCount" =>
                        /\ Invocations(av, m) = 0
                        /\ \A b \in 1..(c - 1) : At(t, b) # At(t, c)

\* the scan of argv comes to apply the parameter option k at position j,
\* for the first time
ComesTo(j, k) ==
    /\ j \in 2..Len(argv)
    /\ IsOptionToken(argv[j])
    /\ k \in ClosingOptions(argv[j])
    /\ ErrorFree(SubSeq(argv, 1, j - 1))
    /\ Invocations(SubSeq(argv, 1, j - 1), k) = 0
    /\ CleanStart(SubSeq(argv, 1, j - 1), argv[j])

\* the literal check option k makes on the token t fails
LiteralFails(k, t) ==
    \/ options[k].type = "Int" /\ ~isNumeric(t, FALSE)
    \/ options[k].type = "Float" /\ ~isNumeric(t, TRUE)

ParameterErrors == {"requires_parameter", "invalid_integer", "invalid_float"}

C17_MarkedBeforeParameter ==
    pc = "done" =>
        /\ \A j \in 2..Len(argv) : \A k \in OptIds :
              ComesTo(j, k) =>
                 /\ j = Len(argv) =>
                       /\ ~result
                       /\ vals[k] = vals0[k]
                       /\ options[k].isSet
                       /\ log = <<[kind |-> "requires_parameter", opt |-> k, text |-> <<>>]>>
                 /\ (j < Len(argv) /\ LiteralFails(k, argv[j + 1])) =>
                       /\ ~result
                       /\ vals[k] = vals0[k]
                       /\ options[k].isSet
                       /\ Len(log) = 1
                       /\ log[1].kind \in {"invalid_integer", "invalid_float"}
                       /\ log[1].opt = k
        /\ \A n \in DOMAIN log :
              log[n].kind \in ParameterErrors =>
                 /\ ~result
                 /\ options[log[n].opt].isSet
                 /\ vals[log[n].opt] = vals0[log[n].opt]
                 /\ ComesTo(i + 1, log[n].opt)

C17_Witness ==
    /\ pc = "done" /\ ~result
    /\ argv = <<Exe, Dash(<<"v", "v", "v", "S">>)>>
    /\ options[3].isSet
    /\ vals[3] = DefaultString
    /\ vals[6] = vals0[6] + 3
    /\ log = <<[kind |-> "requires_parameter", opt |-> 3, text |-> <<>>]>>

(***************************************************************************)
(* The short and the long form of an option: a parse of the argument       *)
(* vector with one form replaced by the other is compared with the parse   *)
(* that was made.                                                          *)
(***************************************************************************)
\* a fresh parser declared alike ends on av as this one did on argv
SameOutcome(av) ==
    LET r == parse(Fresh, av) IN
    /\ r.result = result
    /\ r.P.options = options
    /\ r.P.vals = vals
    /\ r.P.remaining = remaining

(***************************************************************************)
(* C18 as claimed: in any argument vector, putting "--<longName>" for a    *)
(* token "-c" of the same option, or the reverse, gives the same result of *)
(* parse, the same isSet marks, the same values and the same remaining     *)
(* arguments.                                                              *)
(***************************************************************************)
C18_AnyTokenReplaced ==
    pc = "done" =>
        \A j \in 2..Len(argv) : \A k \in OptIds :
            /\ argv[j] = ShortForm(k) => SameOutcome([argv EXCEPT ![j] = LongForm(k)])
            /\ argv[j] = LongForm(k) => SameOutcome([argv EXCEPT ![j] = ShortForm(k)])

(***************************************************************************)
(* C18 amended: in any argument vector, putting "--<longName>" for a token *)
(* "-c" of the same option that is not the parameter of the option before  *)
(* it, or the reverse, gives the same result of parse, the same isSet      *)
(* marks, the same values and the same remaining arguments.                *)
(***************************************************************************)
C18_FormsInterchangeable ==
    pc = "done" =>
        \A j \in OptionPositions(argv) : \A k \in OptIds :
            /\ argv[j] = ShortForm(k) => SameOutcome([argv EXCEPT ![j] = LongForm(k)])
            /\ argv[j] = LongForm(k) => SameOutcome([argv EXCEPT ![j] = ShortForm(k)])

C18_Witness ==
    /\ pc = "done" /\ result
    /\ argv = <<Exe, LongForm(3), <<"a">>, ShortForm(6)>>
    /\ vals[3] = <<"a">> /\ options[3].isSet
    /\ vals[6] = vals0[6] + 1
    /\ remaining = <<>>
    /\ parse(Fresh, <<Exe, ShortForm(3), <<"a">>, LongForm(6)>>).result

(***************************************************************************)
(* A short cluster and its characters as separate short tokens: a parse of *)
(* the argument vector with the cluster spelled out is compared with the   *)
(* parse that was made.                                                    *)
(***************************************************************************)
\* no character of the cluster t but the last is the letter of an option
\* that takes a parameter
ParameterOnlyLast(t) ==
    \A c \in 1..(Len(t) - 2) : \A k \in OptIds :
        options[k].shortName = t[c + 1] => ~requiresParameter(options[k])

\* the characters of the cluster t as short tokens of their own
SpelledOut(t) == [c \in 1..(Len(t) - 1) |-> Dash(<<t[c + 1]>>)]

\* argv with the cluster at position j spelled out
WithSpelledOut(j) ==
    SubSeq(argv, 1, j - 1) \o SpelledOut(argv[j]) \o SubSeq(argv, j + 1, Len(argv))

\* the positions of argv that hold a short cluster the claim is about
Clusters ==
    {j \in 2..Len(argv) :
        /\ StartsWithDash(argv[j]) /\ Len(argv[j]) > 1 /\ argv[j][2] # "-"
        /\ ParameterOnlyLast(argv[j])}

(***************************************************************************)
(* C19 as claimed: for every cluster "-c1c2...ck" in which no character    *)
(* but the last is a parameter option, parsing the argument vector gives   *)
(* the same result, isSet marks, values and remaining arguments as parsing *)
(* it with "-c1 -c2 ... -ck" in the cluster's place, also when the parse   *)
(* fails part-way.                                                         *)
(***************************************************************************)
C19_AnyClusterSpelledOut ==
    pc = "done" => \A j \in Clusters : SameOutcome(WithSpelledOut(j))

(***************************************************************************)
(* C19 amended: the same, for every such cluster that is not the parameter *)
(* of the option before it.                                                *)
(***************************************************************************)
C19_ClusterSpelledOut ==
    pc = "done" =>
        \A j \in Clusters \cap OptionPositions(argv) : SameOutcome(WithSpelledOut(j))

C19_Witness ==
    /\ pc = "done" /\ ~result
    /\ argv = <<Exe, Dash(<<"v", "x">>), <<"a">>>>
    /\ vals[6] = vals0[6] + 1 /\ options[6].isSet
    /\ remaining = <<>>
    /\ log = <<[kind |-> "unknown_short", opt |-> 0, text |-> <<"x">>]>>
    /\ ~parse(Fresh, <<Exe, Dash(<<"v">>), Dash(<<"x">>), <<"a">>>>).result

(***************************************************************************)
(* C20: nothing is reset between the calls of parse on one parser.  A      *)
(* later call finds the isSet marks, the counts and the remaining          *)
(* arguments the earlier calls left: it returns false if its argument      *)
(* vector invokes an option other than a FlagCount that is already set,    *)
(* the count of a FlagCount goes on from where it stood, a required option *)
(* set before satisfies its check of the required options, and remaining   *)
(* is the positional arguments of the earlier calls followed by its own.   *)
(***************************************************************************)
\* the parser the current call of parse found
Entry == calls[Len(calls)].entry

\* the argument vector invokes an option that was set before the call
InvokesSet == {k \in OptIds : /\ options[k].type # "FlagCount"
                              /\ Entry.options[k].isSet
                              /\ Invocations(argv, k) > 0}

C20_NoReset ==
    (pc = "done" /\ Len(calls) > 1) =>
        /\ InvokesSet # {} => ~result
        /\ result <=> /\ ErrorFree(argv)
                      /\ InvokesSet = {}
                      /\ \A k \in Required : Entry.options[k].isSet \/ Invocations(argv, k) > 0
        /\ \A k \in OptIds : Entry.options[k].isSet => options[k].isSet
        /\ Len(remaining) >= Len(Entry.remaining)
        /\ SubSeq(remaining, 1, Len(Entry.remaining)) = Entry.remaining
        /\ (ErrorFree(argv) /\ InvokesSet = {}) =>
              /\ remaining = Entry.remaining \o PositionalsFrom(argv, 2)
              /\ \A k \in OptIds :
                    options[k].type = "FlagCount" =>
                        vals[k] = Entry.vals[k] + Invocations(argv, k)
        /\ (Len(calls) = 2 /\ ErrorFree(calls[1].argv)) =>
              Entry.remaining = PositionalsFrom(calls[1].argv, 2)

C20_Witness ==
    /\ pc = "done" /\ result
    /\ Required = {3}
    /\ Len(calls) = 2
    /\ calls[1].argv = <<Exe, <<"a">>, Dash(<<"S">>), <<"a">>>>
    /\ calls[2].argv = <<Exe, <<"5">>, DashDash(<<"v", "e", "r", "b", "o", "s", "e">>)>>
    /\ Entry.options[3].isSet
    /\ remaining = << <<"a">>, <<"5">> >>
    /\ vals[6] = vals0[6] + 1

====
